---- MODULE Spec2Model ----
(***************************************************************************)
(* Model of src/learn_perceptron.py: the perceptron training loop          *)
(* learn_perceptron, the evaluator eval_perceptron and the sweep           *)
(* update_weights.                                                         *)
(*                                                                         *)
(* Numbers are integers (the examples and weights are drawn from small     *)
(* integer sets, on which the float arithmetic of numpy is exact).         *)
(* Python indices are 0-based; TLA+ sequences are 1-based, so example i of *)
(* the code is element i+1 of the sequence and the recorded indices are    *)
(* the code's 0-based ones.                                                *)
(*                                                                         *)
(* In update_weights the bodies of the two `if` statements hold only the   *)
(* comment "YOUR CODE HERE" (lines 119-120 and 126-127): no statement      *)
(* assigns w there, so the sweep is modelled with an empty correction.     *)
(***************************************************************************)
EXTENDS Integers, Sequences, FiniteSets

\* ---------------------------------------------------------------- bounds
MaxExamples == 2
MaxEpochs == 20

\* raw 2-d points the example matrices are drawn from
Points == { <<-1, -1>>, <<1, 1>>, <<0, 0>> }
\* weight vectors w_init is drawn from (and np.random.randn when it is empty)
Weights == { <<0, 0, 0>>, <<1, 1, 0>>, <<0, 0, -1>> }
\* generously feasible vectors
Feasibles == { <<1, 1, 0>> }
\* lines typed at the prompt
Keys == { <<>>, <<"Q">>, <<"q">>, <<"e", "q">> }

RECURSIVE SeqsUpTo(_, _)
SeqsUpTo(S, n) ==
  IF n = 0 THEN { <<>> }
  ELSE LET shorter == SeqsUpTo(S, n - 1)
       IN  shorter \cup { Append(s, x) : s \in { t \in shorter : Len(t) = n - 1 }, x \in S }

VARIABLES neg_examples, pos_examples, w_init, w_gen_feas, w, iter,
          mistakes0, mistakes1, num_errs, num_err_history, w_dist_history,
          key, pc

vars == << neg_examples, pos_examples, w_init, w_gen_feas, w, iter,
           mistakes0, mistakes1, num_errs, num_err_history, w_dist_history,
           key, pc >>

\* num_errs before line 50 binds it
Unbound == -1

\* ------------------------------------------------------------- functions

\* np.append(examples_nobias, np.ones((n, 1)), axis=1)
add_ones(examples_nobias) ==
  [ i \in 1..Len(examples_nobias) |-> Append(examples_nobias[i], 1) ]

\* np.dot(this_case, w) for a 1x3 row and a 3x1 column
dot(x, v) == x[1] * v[1] + x[2] * v[2] + x[3] * v[3]

\* the squared value of np.linalg.norm(a - b); the history entry stands for
\* the norm through its square
norm(a, b) ==
  (a[1] - b[1]) * (a[1] - b[1]) + (a[2] - b[2]) * (a[2] - b[2])
    + (a[3] - b[3]) * (a[3] - b[3])

\* 'q' in key
has_q(k) == \E i \in 1..Len(k) : k[i] = "q"

\* the test of line 155
is_mistake0_strict(activation) == activation > 0
is_mistake0(activation) == activation >= 0

\* the test of line 161
is_mistake1(activation) == activation < 0

\* the loop of lines 152-156, from index i on
RECURSIVE eval_neg(_, _, _, _)
eval_neg(examples, v, i, mistakes) ==
  IF i >= Len(examples) THEN mistakes
  ELSE eval_neg(examples, v, i + 1,
                IF is_mistake0(dot(examples[i + 1], v))
                THEN Append(mistakes, i) ELSE mistakes)

\* the loop of lines 158-162, from index i on
RECURSIVE eval_pos(_, _, _, _)
eval_pos(examples, v, i, mistakes) ==
  IF i >= Len(examples) THEN mistakes
  ELSE eval_pos(examples, v, i + 1,
                IF is_mistake1(dot(examples[i + 1], v))
                THEN Append(mistakes, i) ELSE mistakes)

eval_perceptron(neg, pos, v) ==
  << eval_neg(neg, v, 0, <<>>), eval_pos(pos, v, 0, <<>>) >>

\* the loop of lines 115-120, from index i on: the activation is computed
\* and tested, and the body of the `if` assigns nothing
RECURSIVE update_neg(_, _, _)
update_neg(examples, v, i) ==
  IF i >= Len(examples) THEN v
  ELSE update_neg(examples,
                  IF dot(examples[i + 1], v) >= 0 THEN v ELSE v,
                  i + 1)

\* the loop of lines 122-127, from index i on
RECURSIVE update_pos(_, _, _)
update_pos(examples, v, i) ==
  IF i >= Len(examples) THEN v
  ELSE update_pos(examples,
                  IF dot(examples[i + 1], v) < 0 THEN v ELSE v,
                  i + 1)

update_weights(neg, pos, w_current) ==
  update_pos(pos, update_neg(neg, w_current, 0), 0)

\* ------------------------------------------------------------------ Init

\* learn_perceptron, lines 30-48
Init ==
  /\ \E neg_examples_nobias \in SeqsUpTo(Points, MaxExamples) :
       neg_examples = add_ones(neg_examples_nobias)
  /\ \E pos_examples_nobias \in SeqsUpTo(Points, MaxExamples) :
       pos_examples = add_ones(pos_examples_nobias)
  /\ w_init \in Weights \cup { <<>> }
  /\ w_gen_feas \in Feasibles \cup { <<>> }
  /\ num_err_history = <<>>
  /\ w_dist_history = <<>>
  /\ w \in (IF Len(w_init) > 0 THEN { w_init } ELSE Weights)
  /\ iter = 0
  /\ mistakes0 = <<>>
  /\ mistakes1 = <<>>
  /\ num_errs = Unbound
  /\ key = <<>>
  /\ pc = "eval0"

\* --------------------------------------------------------------- actions

\* line 49
Eval0 ==
  /\ pc = "eval0"
  /\ mistakes0' = eval_perceptron(neg_examples, pos_examples, w)[1]
  /\ mistakes1' = eval_perceptron(neg_examples, pos_examples, w)[2]
  /\ pc' = "record0"
  /\ UNCHANGED << neg_examples, pos_examples, w_init, w_gen_feas, w, iter,
                  num_errs, num_err_history, w_dist_history, key >>

\* lines 50-51
Record0 ==
  /\ pc = "record0"
  /\ num_errs' = Len(mistakes0) + Len(mistakes1)
  /\ num_err_history' = Append(num_err_history, num_errs')
  /\ pc' = "prompt0"
  /\ UNCHANGED << neg_examples, pos_examples, w_init, w_gen_feas, w, iter,
                  mistakes0, mistakes1, w_dist_history, key >>

Prompt0_exact_match ==
  /\ pc = "prompt0"
  /\ key' \in Keys
  /\ pc' = IF key' = <<"q">> THEN "done" ELSE "dist0"
  /\ UNCHANGED << neg_examples, pos_examples, w_init, w_gen_feas, w, iter,
                  mistakes0, mistakes1, num_errs, num_err_history,
                  w_dist_history >>

\* lines 54-58: plot_perceptron, input, return on quit
Prompt0 ==
  /\ pc = "prompt0"
  /\ key' \in Keys
  /\ pc' = IF has_q(key') THEN "done" ELSE "dist0"
  /\ UNCHANGED << neg_examples, pos_examples, w_init, w_gen_feas, w, iter,
                  mistakes0, mistakes1, num_errs, num_err_history,
                  w_dist_history >>

\* lines 62-63
Dist0 ==
  /\ pc = "dist0"
  /\ w_dist_history' = IF Len(w_gen_feas) > 0
                       THEN Append(w_dist_history, norm(w, w_gen_feas))
                       ELSE w_dist_history
  /\ pc' = "while"
  /\ UNCHANGED << neg_examples, pos_examples, w_init, w_gen_feas, w, iter,
                  mistakes0, mistakes1, num_errs, num_err_history, key >>

While_off_by_one ==
  /\ pc = "while"
  /\ num_errs > 1 => iter < MaxEpochs
  /\ pc' = IF num_errs > 1 THEN "update" ELSE "done"
  /\ UNCHANGED << neg_examples, pos_examples, w_init, w_gen_feas, w, iter,
                  mistakes0, mistakes1, num_errs, num_err_history,
                  w_dist_history, key >>

\* line 66 (and the return of line 91); the epoch counter is capped
While ==
  /\ pc = "while"
  /\ num_errs > 0 => iter < MaxEpochs
  /\ pc' = IF num_errs > 0 THEN "update" ELSE "done"
  /\ UNCHANGED << neg_examples, pos_examples, w_init, w_gen_feas, w, iter,
                  mistakes0, mistakes1, num_errs, num_err_history,
                  w_dist_history, key >>

\* lines 67-70
Update ==
  /\ pc = "update"
  /\ iter' = iter + 1
  /\ w' = update_weights(neg_examples, pos_examples, w)
  /\ pc' = "dist"
  /\ UNCHANGED << neg_examples, pos_examples, w_init, w_gen_feas,
                  mistakes0, mistakes1, num_errs, num_err_history,
                  w_dist_history, key >>

\* lines 74-75
Dist ==
  /\ pc = "dist"
  /\ w_dist_history' = IF Len(w_gen_feas) > 0
                       THEN Append(w_dist_history, norm(w, w_gen_feas))
                       ELSE w_dist_history
  /\ pc' = "eval"
  /\ UNCHANGED << neg_examples, pos_examples, w_init, w_gen_feas, w, iter,
                  mistakes0, mistakes1, num_errs, num_err_history, key >>

Eval_records ==
  /\ pc = "eval"
  /\ mistakes0' = eval_perceptron(neg_examples, pos_examples, w)[1]
  /\ mistakes1' = eval_perceptron(neg_examples, pos_examples, w)[2]
  /\ num_err_history' = Append(num_err_history, Len(mistakes0') + Len(mistakes1'))
  /\ pc' = "record"
  /\ UNCHANGED << neg_examples, pos_examples, w_init, w_gen_feas, w, iter,
                  num_errs, w_dist_history, key >>

\* line 79
Eval ==
  /\ pc = "eval"
  /\ mistakes0' = eval_perceptron(neg_examples, pos_examples, w)[1]
  /\ mistakes1' = eval_perceptron(neg_examples, pos_examples, w)[2]
  /\ pc' = "record"
  /\ UNCHANGED << neg_examples, pos_examples, w_init, w_gen_feas, w, iter,
                  num_errs, num_err_history, w_dist_history, key >>

Record_overwrite ==
  /\ pc = "record"
  /\ num_errs' = Len(mistakes0) + Len(mistakes1)
  /\ num_err_history' = << num_errs' >>
  /\ pc' = "prompt"
  /\ UNCHANGED << neg_examples, pos_examples, w_init, w_gen_feas, w, iter,
                  mistakes0, mistakes1, w_dist_history, key >>

Record_neg_only ==
  /\ pc = "record"
  /\ num_errs' = Len(mistakes0)
  /\ num_err_history' = Append(num_err_history, num_errs')
  /\ pc' = "prompt"
  /\ UNCHANGED << neg_examples, pos_examples, w_init, w_gen_feas, w, iter,
                  mistakes0, mistakes1, w_dist_history, key >>

\* lines 80-81
Record ==
  /\ pc = "record"
  /\ num_errs' = Len(mistakes0) + Len(mistakes1)
  /\ num_err_history' = Append(num_err_history, num_errs')
  /\ pc' = "prompt"
  /\ UNCHANGED << neg_examples, pos_examples, w_init, w_gen_feas, w, iter,
                  mistakes0, mistakes1, w_dist_history, key >>

\* lines 85-89: plot_perceptron, input, break on quit
Prompt ==
  /\ pc = "prompt"
  /\ key' \in Keys
  /\ pc' = IF has_q(key') THEN "done" ELSE "while"
  /\ UNCHANGED << neg_examples, pos_examples, w_init, w_gen_feas, w, iter,
                  mistakes0, mistakes1, num_errs, num_err_history,
                  w_dist_history >>

Next ==
  \/ Eval0
  \/ Record0
  \/ Prompt0
  \/ Dist0
  \/ While
  \/ Update
  \/ Dist
  \/ Eval
  \/ Record
  \/ Prompt

Spec == Init /\ [][Next]_vars

TypeOK ==
  /\ pc \in { "eval0", "record0", "prompt0", "dist0", "while", "update",
              "dist", "eval", "record", "prompt", "done" }
  /\ iter \in 0..MaxEpochs
  /\ Len(w) = 3
  /\ key \in Keys

\* ---------------------------------------------------------------- claims

Range(s) == { s[i] : i \in 1..Len(s) }

Ascending(s) == \A i, j \in 1..Len(s) : i < j => s[i] < s[j]

Last(s) == s[Len(s)]

\* the indices of the negative examples whose activation against v is >= 0
NegAtOrAbove(v) ==
  { i \in 0..(Len(neg_examples) - 1) : dot(neg_examples[i + 1], v) >= 0 }

\* the indices of the positive examples whose activation against v is < 0
PosBelow(v) ==
  { j \in 0..(Len(pos_examples) - 1) : dot(pos_examples[j + 1], v) < 0 }

AtCheckpoint == pc \in { "prompt0", "prompt" }

\* C1: right after an evaluation, mistakes0 is exactly the set of indices of
\* negative examples with activation >= 0 and mistakes1 exactly the set of
\* indices of positive examples with activation < 0, each in strictly
\* ascending order; an activation of exactly 0 is a mistake for a negative
\* example and correct for a positive one.
C1_EvalExact ==
  pc \in { "record0", "record" } =>
    /\ Range(mistakes0) = NegAtOrAbove(w)
    /\ Range(mistakes1) = PosBelow(w)
    /\ Ascending(mistakes0)
    /\ Ascending(mistakes1)
    /\ \A i \in 0..(Len(neg_examples) - 1) :
         dot(neg_examples[i + 1], w) = 0 => i \in Range(mistakes0)
    /\ \A j \in 0..(Len(pos_examples) - 1) :
         dot(pos_examples[j + 1], w) = 0 => j \notin Range(mistakes1)

\* an evaluation met a negative and a positive example with activation 0,
\* a correctly classified negative example and a misclassified positive one
C1_Witness ==
  /\ pc = "record0"
  /\ \E i \in 0..(Len(neg_examples) - 1) :
       dot(neg_examples[i + 1], w) = 0 /\ i \in Range(mistakes0)
  /\ \E i \in 0..(Len(neg_examples) - 1) :
       dot(neg_examples[i + 1], w) < 0 /\ i \notin Range(mistakes0)
  /\ \E j \in 0..(Len(pos_examples) - 1) :
       dot(pos_examples[j + 1], w) = 0 /\ j \notin Range(mistakes1)
  /\ \E j \in 0..(Len(pos_examples) - 1) :
       dot(pos_examples[j + 1], w) < 0 /\ j \in Range(mistakes1)

\* the online sweep of the perceptron rule: w - x for a negative example
\* with activation >= 0, then w + x for a positive one with activation < 0,
\* each test made against the vector corrected so far
RECURSIVE SweepNeg(_, _, _)
SweepNeg(examples, v, i) ==
  IF i >= Len(examples) THEN v
  ELSE LET x == examples[i + 1]
       IN  SweepNeg(examples,
                    IF dot(x, v) >= 0
                    THEN << v[1] - x[1], v[2] - x[2], v[3] - x[3] >> ELSE v,
                    i + 1)

RECURSIVE SweepPos(_, _, _)
SweepPos(examples, v, i) ==
  IF i >= Len(examples) THEN v
  ELSE LET x == examples[i + 1]
       IN  SweepPos(examples,
                    IF dot(x, v) < 0
                    THEN << v[1] + x[1], v[2] + x[2], v[3] + x[3] >> ELSE v,
                    i + 1)

OnlineSweep(neg, pos, v) == SweepPos(pos, SweepNeg(neg, v, 0), 0)

\* C2: one call of update_weights replaces w by the result of the online
\* sweep (subtract each misclassified negative example, then add each
\* misclassified positive example, every test against the current vector).
C2_UpdateIsOnlineSweep ==
  [][ pc = "update" => w' = OnlineSweep(neg_examples, pos_examples, w) ]_vars

\* C3: the loop stops exactly when the last evaluation counted 0 errors or
\* a quit was read at a checkpoint: it returns only then; with errors > 0
\* and a continue answer the next steps are a sweep, an evaluation and a
\* checkpoint; with 0 errors or a quit no sweep, evaluation or checkpoint
\* follows and the weight vector held is the one returned.
C3_StopsExactlyWhen ==
  /\ [](pc = "done" => (num_errs = 0 \/ has_q(key)))
  /\ [][ /\ (AtCheckpoint /\ ~has_q(key') /\ num_errs > 0) =>
              pc' \in { "dist0", "while" }
         /\ (pc = "dist0") => pc' = "while"
         /\ (pc = "while" /\ num_errs > 0) => pc' = "update"
         /\ (pc = "update") => pc' = "dist"
         /\ (pc = "dist") => pc' = "eval"
         /\ (pc = "eval") => pc' = "record"
         /\ (pc = "record") => pc' = "prompt"
         /\ (AtCheckpoint /\ has_q(key')) => (pc' = "done" /\ w' = w)
         /\ (pc \in { "prompt0", "prompt", "dist0", "while" } /\ num_errs = 0) =>
              (pc' \in { "dist0", "while", "done" } /\ w' = w)
         /\ (pc = "while" /\ num_errs = 0) => pc' = "done"
         /\ pc # "done"
     ]_vars

\* the loop was answered continue with errors left and starts one more sweep
C3_Witness ==
  /\ pc = "update"
  /\ iter >= 1
  /\ num_errs > 0
  /\ ~has_q(key)

\* C4: a quit read at the first checkpoint makes the loop return at once:
\* the weight vector is the initial one (w_init when it was given, the drawn
\* one otherwise; it never changes while no sweep has started), no sweep has
\* been made and the error history has exactly one entry.
C4_QuitAtFirstCheckpoint ==
  /\ []((pc = "done" /\ iter = 0 /\ has_q(key)) =>
          /\ Len(num_err_history) = 1
          /\ (Len(w_init) > 0 => w = w_init))
  /\ [][ /\ (iter' = 0 => w' = w)
         /\ (pc = "prompt0" /\ has_q(key')) =>
              (pc' = "done" /\ iter' = 0 /\ num_err_history' = num_err_history)
     ]_vars

\* the loop returned on a quit typed at the first checkpoint, with errors left
C4_Witness ==
  /\ pc = "done"
  /\ iter = 0
  /\ has_q(key)
  /\ num_errs > 0
  /\ Len(w_init) > 0

\* C5: at every checkpoint and at return the error history has iter + 1
\* entries, iter being the number of sweeps made; no step changes or removes
\* an entry already in the history.
C5_HistoryLength ==
  /\ []((AtCheckpoint \/ pc = "done") => Len(num_err_history) = iter + 1)
  /\ [][ /\ Len(num_err_history') >= Len(num_err_history)
         /\ \A i \in 1..Len(num_err_history) :
              num_err_history'[i] = num_err_history[i]
     ]_vars

\* a checkpoint after at least two sweeps
C5_Witness ==
  /\ pc = "prompt"
  /\ iter >= 2
  /\ Len(num_err_history) = iter + 1

\* C6: with a feasible vector the distance history is as long as the error
\* history at every checkpoint (the first one included) and at return;
\* without one the distance history is always empty.
C6_DistanceLength ==
  /\ (Len(w_gen_feas) > 0 /\ (AtCheckpoint \/ pc = "done")) =>
       Len(w_dist_history) = Len(num_err_history)
  /\ Len(w_gen_feas) = 0 => w_dist_history = <<>>

C7Data ==
  /\ neg_examples = << <<-1, -1, 1>> >>
  /\ pos_examples = << <<1, 1, 1>> >>
  /\ w_init = <<0, 0, 0>>

\* C7: on negatives {(-1,-1)}, positives {(1,1)}, w_init = (0,0,0) the loop
\* reaches zero errors within at most 20 epochs: a checkpoint of epoch 20 or
\* later is one with no error left.
C7_ConvergesWithin20 ==
  (C7Data /\ pc = "prompt" /\ iter >= 20) => num_errs = 0

SharedPoint ==
  \E i \in 1..Len(neg_examples), j \in 1..Len(pos_examples) :
    neg_examples[i] = pos_examples[j]

\* C8: when a point is in both the negative and the positive set, every
\* evaluation counts at least one error, and the loop returns only on a quit.
C8_NonSeparableNeverStops ==
  SharedPoint =>
    /\ (pc \notin { "eval0", "record0" } => num_errs > 0)
    /\ (pc = "done" => has_q(key))

\* several epochs on a data set with a shared point, still being continued
C8_Witness ==
  /\ SharedPoint
  /\ pc = "update"
  /\ iter >= 3
  /\ ~has_q(key)

\* C9: no step changes the example sets; an evaluation changes neither the
\* weight vector nor a history; a sweep changes neither the caller's w_init
\* nor a history.
C9_Frame ==
  [][ /\ neg_examples' = neg_examples
      /\ pos_examples' = pos_examples
      /\ w_init' = w_init
      /\ (pc \in { "eval0", "eval" }) =>
           /\ w' = w
           /\ num_err_history' = num_err_history
           /\ w_dist_history' = w_dist_history
      /\ (pc = "update") =>
           /\ num_err_history' = num_err_history
           /\ w_dist_history' = w_dist_history
    ]_vars

\* an evaluation that followed a sweep, the caller having given w_init
C9_Witness ==
  /\ pc = "record"
  /\ iter >= 1
  /\ Len(w_init) > 0
  /\ Len(neg_examples) > 0
  /\ Len(pos_examples) > 0

\* C10: at every checkpoint and at return the last entry of the error
\* history is the number of examples the weight vector held misclassifies;
\* a return with a non-zero last entry is one caused by a quit.
C10_LastEntryIsCurrent ==
  (AtCheckpoint \/ pc = "done") =>
    /\ Last(num_err_history) =
         Cardinality(NegAtOrAbove(w)) + Cardinality(PosBelow(w))
    /\ ((pc = "done" /\ Last(num_err_history) # 0) => has_q(key))

\* a return on quit after at least one sweep, with errors of both classes
C10_Witness ==
  /\ pc = "done"
  /\ iter >= 1
  /\ has_q(key)
  /\ Len(mistakes0) > 0
  /\ Len(mistakes1) > 0

====
